---- MODULE Spec2Model ----
(***************************************************************************)
(* Model of the dataset-splitting routines of mhciipresentation/splits.py  *)
(* (random_splitting, random_splitting_mouse, motif_exclusion,             *)
(* leventstein and their helpers) and of the step methods of               *)
(* TransformerModel in mhciipresentation/models.py.                        *)
(*                                                                         *)
(* A table (pandas DataFrame) is a sequence of rows; the index label of a  *)
(* row is its position.  A partition is the set of index labels of its     *)
(* rows.  Every random draw is a nondeterministic choice over all the      *)
(* outcomes the sampler can return; a draw made with a fixed seed is a     *)
(* fixed but unknown function of the seed and the sampler's arguments.     *)
(***************************************************************************)
EXTENDS Integers, Sequences, FiniteSets, TLC

VARIABLES rs, ms, mo, lv, tm

vars == <<rs, ms, mo, lv, tm>>

(* The state of a routine that is not being run. *)
Idle == [pc |-> "idle"]

(***************************************************************************)
(* Bounds of the input tables                                              *)
(***************************************************************************)
(* random_splitting: number of rows of the input table *)
MaxRows == 6

(* random_splitting_mouse: proteins with a label-1 row; label-0 rows whose
   accession and peptide occur on no other row; label-0 rows that carry the
   accession of a label-1 row; label-0 rows that repeat one peptide; the
   number of such fresh rows in the small tables *)
MaxProteins == 10
MaxFreshNeg == 56
MaxOwnNeg == 1
MaxDupNeg == 2
FewFreshNeg == 6

(* leventstein: Levenshtein groups of pos_pep_lev_groups.csv; rows of
   target_value 0 whose peptide is in no group *)
MaxGroups == 8
MaxLevNeg == 6

(* motif_exclusion: rows and peptides of the input table *)
MaxMotifRows == 4
MaxMotifPeptides == 2

(* TransformerModel: rows of a batch, and steps made on one model *)
MaxBatch == 4
MaxSteps == 2

(***************************************************************************)
(* Arithmetic of the samplers.  A fraction is a pair <<num, den>>.         *)
(***************************************************************************)
(* math.ceil(frac * n), as sklearn computes n_test *)
Ceil(frac, n) == (frac[1] * n + frac[2] - 1) \div frac[2]

(* int(n * frac): truncation of a non-negative product *)
IntPart(frac, n) == (frac[1] * n) \div frac[2]

(* Python's round(frac * n): round half to even, as DataFrame.sample(frac=) *)
Round(frac, n) ==
    LET q == (frac[1] * n) \div frac[2]
        r2 == 2 * ((frac[1] * n) % frac[2])
    IN  IF r2 < frac[2] THEN q
        ELSE IF r2 > frac[2] THEN q + 1
        ELSE IF q % 2 = 0 THEN q ELSE q + 1

(* All subsets of S with k elements: the outcomes of drawing k of S without
   replacement. *)
RECURSIVE KSubsets(_, _)
KSubsets(S, k) ==
    IF k = 0 THEN {{}}
    ELSE IF Cardinality(S) < k THEN {}
    ELSE LET x == CHOOSE y \in S : \A z \in S : y <= z
         IN  {T \cup {x} : T \in KSubsets(S \ {x}, k - 1)} \cup KSubsets(S \ {x}, k)

(* The elements of the integer set S at the positions P (1 = smallest):
   positional selection (iloc) on an index kept in increasing order. *)
Take(S, P) == {i \in S : Cardinality({j \in S : j <= i}) \in P}

(***************************************************************************)
(* Seeded draws.  RandomState(seed) is created afresh by every call that   *)
(* is given random_state=seed, so what it returns is a function of the     *)
(* sampler and its arguments.  `memo` holds the values of that function    *)
(* seen so far, as tuples <<sampler, n, k, outcome>>.                      *)
(***************************************************************************)
(* A draw that takes no seed: every call may return any outcome. *)
UnseededDraw(memo, sampler, n, k) == KSubsets(1..n, k)

SeededDraw(memo, sampler, n, k) ==
    LET known == {m \in memo : m[1] = sampler /\ m[2] = n /\ m[3] = k}
    IN  IF known = {} THEN KSubsets(1..n, k) ELSE {m[4] : m \in known}

(***************************************************************************)
(* Helpers of splits.py                                                    *)
(***************************************************************************)
(* A removal that removes nothing. *)
KeepOverlappingPeptides(peptides_1, peptides_2) == <<peptides_1, peptides_2>>

(* peptides_1 without the elements of peptides_2, and peptides_2 *)
remove_overlapping_peptides(peptides_1, peptides_2) ==
    <<peptides_1 \ peptides_2, peptides_2>>

(* The peptide column of the rows idx of a table. *)
Peptides(data, idx) == {data[i].peptide : i \in idx}

(* data[data["peptide"].isin(S)]: index labels of the rows whose peptide is in S *)
IsinPeptide(data, S) == {i \in DOMAIN data : data[i].peptide \in S}

(* A frame whose rows may repeat (DataFrame.append keeps both copies of a row
   that is in both operands) is a function from index labels to the number of
   rows carrying the label. *)
Frame(idx) == [i \in idx |-> 1]

FrameAppend(f, g) ==
    [i \in DOMAIN f \cup DOMAIN g |->
        (IF i \in DOMAIN f THEN f[i] ELSE 0) + (IF i \in DOMAIN g THEN g[i] ELSE 0)]

RECURSIVE SumOver(_, _)
SumOver(f, S) ==
    IF S = {} THEN 0
    ELSE LET x == CHOOSE y \in S : TRUE IN f[x] + SumOver(f, S \ {x})

(* len(frame) *)
FrameLen(f) == SumOver(f, DOMAIN f)

(* Series.value_counts() of the column col of a frame: a function from the
   values that occur to the number of rows carrying them. *)
value_counts(data, f, col) ==
    [v \in {data[i][col] : i \in DOMAIN f} |->
        SumOver(f, {i \in DOMAIN f : data[i][col] = v})]

(* label_dist_summary: value_cts[0] and value_cts[1] are looked up by label;
   a label that does not occur raises KeyError. *)
label_dist_summary(data, f, col) ==
    LET value_cts == value_counts(data, f, col)
    IN  IF 0 \in DOMAIN value_cts /\ 1 \in DOMAIN value_cts
        THEN [raised |-> "none", rows |-> FrameLen(f),
              negative |-> value_cts[0], positive |-> value_cts[1]]
        ELSE [raised |-> "KeyError", rows |-> FrameLen(f),
              negative |-> 0, positive |-> 0]

(* The label summaries a routine prints, in the order of the calls: a call
   that raises ends the routine, so no later call is made. *)
RECURSIVE Summaries(_, _, _)
Summaries(data, frames, col) ==
    IF frames = <<>> THEN <<>>
    ELSE LET first == label_dist_summary(data, Head(frames), col)
         IN  IF first.raised # "none" THEN <<first>>
             ELSE <<first>> \o Summaries(data, Tail(frames), col)

SummariesRaised(sums) == \E j \in DOMAIN sums : sums[j].raised # "none"

(* validate_split: the overlap counts it prints; X_test = {} stands for None
   only in the caller that passes no test set. *)
validate_split(X_train, X_val, X_test, hasTest) ==
    [train_val |-> Cardinality(X_train \cap X_val),
     train_test |-> IF hasTest THEN Cardinality(X_train \cap X_test) ELSE 0,
     val_test |-> IF hasTest THEN Cardinality(X_val \cap X_test) ELSE 0]

(***************************************************************************)
(* Input tables of random_splitting: columns peptide and target_value.     *)
(* The routine does not depend on the order of the rows nor on the names   *)
(* of the peptides, so a table is built from its peptide groups: a group   *)
(* <<neg, pos>> is a peptide occurring on neg rows of target_value 0 and   *)
(* pos rows of target_value 1, and the groups are listed largest first.    *)
(***************************************************************************)
GroupSize(g) == g[1] + g[2]

Groups(max) == {g \in (0..max) \X (0..max) : GroupSize(g) >= 1 /\ GroupSize(g) <= max}

GroupLeq(g, h) ==
    \/ GroupSize(g) < GroupSize(h)
    \/ GroupSize(g) = GroupSize(h) /\ g[1] <= h[1]

RECURSIVE GroupSeqs(_, _)
GroupSeqs(total, cap) ==
    IF total = 0 THEN {<<>>}
    ELSE UNION {{<<g>> \o s : s \in GroupSeqs(total - GroupSize(g), g)} :
                g \in {h \in Groups(total) : GroupLeq(h, cap)}}

RECURSIVE ExpandGroups(_, _)
ExpandGroups(gs, pep) ==
    IF gs = <<>> THEN <<>>
    ELSE [i \in 1..GroupSize(Head(gs)) |->
            [peptide |-> pep, target_value |-> IF i <= Head(gs)[1] THEN 0 ELSE 1]]
         \o ExpandGroups(Tail(gs), pep + 1)

RandomTables ==
    UNION {{ExpandGroups(gs, 1) : gs \in GroupSeqs(n, <<n, n>>)} : n \in 1..MaxRows}

(* eval_frac: the default 0.2 and 0.5; val_frac: the default 0.5 and 1 (the
   value main() passes for the SA data). *)
EvalFracs == {<<1, 5>>, <<1, 2>>}
ValFracs == {<<1, 2>>, <<1, 1>>}

(***************************************************************************)
(* random_splitting                                                        *)
(***************************************************************************)
RS_Locals ==
    [X_train_data |-> {}, X_eval_data |-> {}, X_val_data |-> {},
     X_test_data |-> {}, has_test |-> FALSE, sampled |-> {}, summaries |-> <<>>]

RS_Start(data, eval_frac, val_frac, run, memo, out) ==
    [pc |-> "start", data |-> data, eval_frac |-> eval_frac, val_frac |-> val_frac,
     run |-> run, memo |-> memo, out |-> out, loc |-> RS_Locals]

(* The outcome recorded for an invocation that raised. *)
RS_Raised(what) ==
    [status |-> what, X_train_idx |-> {}, X_val_idx |-> {}, X_test_idx |-> {},
     has_test |-> FALSE]

(* n_test and n_train of train_test_split(test_size=eval_frac) *)
n_test(eval_frac, n) == Ceil(eval_frac, n)
n_train(eval_frac, n) == n - n_test(eval_frac, n)

(* Lines 126-136: the train/eval draw, the removal of the evaluation peptides
   from the training peptides, and the selection of the rows. *)
RS_TrainTestSplit ==
    /\ rs.pc = "start"
    /\ LET n == Len(rs.data)
           k == n_test(rs.eval_frac, n)
       IN  IF n_train(rs.eval_frac, n) = 0
           THEN rs' = [rs EXCEPT !.pc = "raised",
                                 !.out = Append(@, RS_Raised("ValueError"))]
           ELSE \E ind_test \in SeededDraw(rs.memo, "train_test_split", n, k) :
                  LET ind_train == (1..n) \ ind_test
                      pair == remove_overlapping_peptides(
                                  Peptides(rs.data, ind_train),
                                  Peptides(rs.data, ind_test))
                      X_train == pair[1]
                      X_eval == pair[2]
                  IN  rs' = [rs EXCEPT
                        !.pc = "split",
                        !.memo = @ \cup {<<"train_test_split", n, k, ind_test>>},
                        !.loc.X_train_data = IsinPeptide(rs.data, X_train),
                        !.loc.X_eval_data = IsinPeptide(rs.data, X_eval)]
    /\ UNCHANGED <<ms, mo, lv, tm>>

(* Lines 138-149: the validation sample of the evaluation rows, the second
   removal, and the selection of the validation and test rows. *)
RS_SampleVal ==
    /\ rs.pc = "split"
    /\ LET m == Cardinality(rs.loc.X_eval_data)
           k == Round(rs.val_frac, m)
       IN  \E pos \in SeededDraw(rs.memo, "sample", m, k) :
             LET X_val_rows == Take(rs.loc.X_eval_data, pos)
                 X_test_rows == rs.loc.X_eval_data \ X_val_rows
                 pair == remove_overlapping_peptides(
                             Peptides(rs.data, X_val_rows),
                             Peptides(rs.data, X_test_rows))
                 nonempty == X_test_rows # {}
                 X_test == pair[1]
                 X_val == IF nonempty THEN pair[2] ELSE Peptides(rs.data, X_val_rows)
             IN  rs' = [rs EXCEPT
                   !.pc = "sampled",
                   !.memo = @ \cup {<<"sample", m, k, pos>>},
                   !.loc.sampled = X_val_rows,
                   !.loc.has_test = nonempty,
                   !.loc.X_test_data =
                       IF nonempty THEN IsinPeptide(rs.data, X_test) ELSE {},
                   !.loc.X_val_data = IsinPeptide(rs.data, X_val)]
    /\ UNCHANGED <<ms, mo, lv, tm>>

(* Lines 151-164: validate_split and the label summaries of the partitions. *)
RS_Summary ==
    /\ rs.pc = "sampled"
    /\ LET frames == <<Frame(rs.loc.X_train_data), Frame(rs.loc.X_val_data)>>
                     \o IF rs.loc.has_test THEN <<Frame(rs.loc.X_test_data)>> ELSE <<>>
           sums == Summaries(rs.data, frames, "target_value")
       IN  IF SummariesRaised(sums)
           THEN rs' = [rs EXCEPT !.pc = "raised", !.loc.summaries = sums,
                                 !.out = Append(@, RS_Raised("KeyError"))]
           ELSE rs' = [rs EXCEPT !.pc = "summarised", !.loc.summaries = sums]
    /\ UNCHANGED <<ms, mo, lv, tm>>

(* save_idx: the index of each partition; no test file when X_test_data is None *)
save_idx(X_train_data, X_val_data, X_test_data, has_test) ==
    [status |-> "written", X_train_idx |-> X_train_data, X_val_idx |-> X_val_data,
     X_test_idx |-> IF has_test THEN X_test_data ELSE {}, has_test |-> has_test]

(* Lines 166-170: the index files are written. *)
RS_Save ==
    /\ rs.pc = "summarised"
    /\ rs' = [rs EXCEPT
          !.pc = "written",
          !.out = Append(@, save_idx(rs.loc.X_train_data, rs.loc.X_val_data,
                                     rs.loc.X_test_data, rs.loc.has_test))]
    /\ UNCHANGED <<ms, mo, lv, tm>>

(* The caller invokes random_splitting a second time with the same
   arguments; the locals of the first invocation are gone. *)
RS_Reinvoke ==
    /\ rs.pc \in {"written", "raised"}
    /\ rs.run = 1
    /\ rs' = RS_Start(rs.data, rs.eval_frac, rs.val_frac, 2, rs.memo, rs.out)
    /\ UNCHANGED <<ms, mo, lv, tm>>

InitRandom ==
    /\ \E data \in RandomTables, eval_frac \in EvalFracs, val_frac \in ValFracs :
         rs = RS_Start(data, eval_frac, val_frac, 1, {}, <<>>)
    /\ ms = Idle /\ mo = Idle /\ lv = Idle /\ tm = Idle

NextRandom ==
    \/ RS_TrainTestSplit
    \/ RS_SampleVal
    \/ RS_Summary
    \/ RS_Save
    \/ RS_Reinvoke

SpecRandom == InitRandom /\ [][NextRandom]_vars

(***************************************************************************)
(* Input tables of random_splitting_mouse: columns label, "Uniprot         *)
(* Accession" and "Peptide Sequence".                                      *)
(***************************************************************************)
MouseRow(label, accession, peptide) ==
    ("label" :> label) @@ ("Uniprot Accession" :> accession)
        @@ ("Peptide Sequence" :> peptide)

(* nProt proteins with one label-1 row each (proteins 1 and 2 carry the same
   peptide when shared), nOwn label-0 rows under the accession of protein 1,
   nFresh label-0 rows with an accession and a peptide of their own, and nDup
   label-0 rows that all carry accession 300 and peptide 300. *)
MouseTable(nProt, shared, nOwn, nFresh, nDup) ==
    [p \in 1..nProt |-> MouseRow(1, p, IF shared /\ p = 2 THEN 1 ELSE p)]
    \o [j \in 1..nOwn |-> MouseRow(0, 1, 100 + j)]
    \o [j \in 1..nFresh |-> MouseRow(0, 200 + j, 200 + j)]
    \o [j \in 1..nDup |-> MouseRow(0, 300, 300)]

MouseTables ==
    {MouseTable(nProt, shared, nOwn, nFresh, nDup) :
        nProt \in 0..MaxProteins, shared \in BOOLEAN, nOwn \in {0, MaxOwnNeg},
        nFresh \in {FewFreshNeg, MaxFreshNeg - 10, MaxFreshNeg},
        nDup \in {0, MaxDupNeg}}

(***************************************************************************)
(* Fresh rows.  A label-0 row whose accession and whose peptide sequence   *)
(* occur on no other row of the table is selected by no accession, and its *)
(* peptide sequence removes no other row: the routine tells two such rows  *)
(* apart by nothing but the frames they are in.  The state holds every     *)
(* other row by its index label, and of the fresh rows it holds, for every *)
(* set of frames (data and the three samples of negatives), the number of  *)
(* fresh rows that are in exactly those frames.                            *)
(***************************************************************************)
Occurs(table, col, v) == Cardinality({j \in DOMAIN table : table[j][col] = v})

Fresh(table) ==
    {i \in DOMAIN table :
        /\ table[i]["label"] = 0
        /\ Occurs(table, "Uniprot Accession", table[i]["Uniprot Accession"]) = 1
        /\ Occurs(table, "Peptide Sequence", table[i]["Peptide Sequence"]) = 1}

Named(table) == DOMAIN table \ Fresh(table)

Frames == {"data", "train", "val", "test"}
Status == SUBSET Frames

NoFresh == [v \in Status |-> 0]

(* At the start every fresh row is in data and in no sample. *)
FreshStart(table) ==
    [v \in Status |-> IF v = {"data"} THEN Cardinality(Fresh(table)) ELSE 0]

(* The number of fresh rows in the frame r *)
FreshCount(fresh, r) == SumOver(fresh, {v \in Status : r \in v})

(* The index label under which the fresh rows of status v stand in a frame
   that is written or summarised, and their row: label 0, an accession and a
   peptide sequence that no row of another status carries. *)
FreshKey(v) ==
    0 - (1 + (IF "data" \in v THEN 1 ELSE 0) + (IF "train" \in v THEN 2 ELSE 0)
           + (IF "val" \in v THEN 4 ELSE 0) + (IF "test" \in v THEN 8 ELSE 0))

FreshKeys(fresh, r) == {FreshKey(v) : v \in {w \in Status : r \in w /\ fresh[w] > 0}}

(* The fresh rows of the frame r as a frame *)
FreshFrame(fresh, r) ==
    [k \in FreshKeys(fresh, r) |-> fresh[CHOOSE v \in Status : FreshKey(v) = k]]

(* The rows of the table by index label, fresh rows under their keys *)
Rows(table) ==
    [k \in Named(table) \cup {FreshKey(v) : v \in Status} |->
        IF k > 0 THEN table[k] ELSE MouseRow(0, k, k)]

Min(a, b) == IF a <= b THEN a ELSE b

(* The ways of taking n fresh rows out of the statuses S, at most avail[v]
   rows of status v. *)
RECURSIVE Distribute(_, _, _)
Distribute(avail, S, n) ==
    IF S = {} THEN (IF n = 0 THEN {NoFresh} ELSE {})
    ELSE LET v == CHOOSE x \in S : TRUE
         IN  UNION {{[d EXCEPT ![v] = k] : d \in Distribute(avail, S \ {v}, n - k)} :
                    k \in 0..Min(n, avail[v])}

(* frame.sample(n) without a seed returns any n rows of the frame: any rows
   held by index label, and any number of fresh rows of each status, n rows
   altogether; no outcome when n exceeds the frame (pandas raises
   ValueError). *)
sample(rows, fresh, n) ==
    UNION {{[rows |-> T, fresh |-> d] :
                d \in Distribute(fresh, {v \in Status : "data" \in v /\ fresh[v] > 0},
                                 n - Cardinality(T))} :
           T \in {U \in SUBSET rows : Cardinality(U) <= n}}

(* The fresh rows drawn, d[v] of every status v, are in the sample r as well. *)
Mark(fresh, d, r) ==
    [w \in Status |->
        fresh[w] - (IF r \notin w THEN d[w] ELSE 0)
                 + (IF r \in w THEN d[w \ {r}] ELSE 0)]

(***************************************************************************)
(* random_splitting_mouse                                                  *)
(***************************************************************************)
(* The fraction of the proteins drawn for validation and for testing, and
   the number of negatives sampled per row of a partition. *)
ProteinFrac == <<1, 10>>
NegPerRow == 5

Column(table, idx, col) == {table[i][col] : i \in idx}

Isin(table, idx, col, S) == {i \in idx : table[i][col] \in S}

(* data.loc[data.label == 0] of the frame with the index labels idx *)
LabelZero(table, idx) == {i \in idx : table[i]["label"] = 0}

(* The fresh rows of data that are in one of the samples `parts` leave data:
   their peptide sequences are among the sampled ones, and no other row
   carries them. *)
RemoveFresh(fresh, parts) ==
    [w \in Status |->
        IF "data" \in w
        THEN (IF w \cap parts = {} THEN fresh[w] ELSE 0)
        ELSE fresh[w] + (IF w \cap parts # {} THEN fresh[w \cup {"data"}] ELSE 0)]

(* A removal that keeps every label-0 row. *)
KeepSampled(table, data, sampled) ==
    [rows |-> LabelZero(table, data.rows), fresh |-> data.fresh]

(* A removal by row: only the sampled rows leave the frame. *)
RemoveSampledRows(table, data, sampled) ==
    [rows |-> LabelZero(table, data.rows) \ sampled.rows,
     fresh |-> RemoveFresh(data.fresh, sampled.parts)]

(* The frame without the rows whose peptide sequence has been sampled:
   data.loc[data.label == 0].loc[~data["Peptide Sequence"].isin(sampled)],
   where sampled.rows are the sampled rows held by index label and
   sampled.parts the samples whose fresh rows are meant. *)
RemoveSampled(table, data, sampled) ==
    [rows |-> LabelZero(table, data.rows) \
                  Isin(table, data.rows, "Peptide Sequence",
                       Column(table, sampled.rows, "Peptide Sequence")),
     fresh |-> RemoveFresh(data.fresh, sampled.parts)]

(* len(data.loc[data.label == 0]) *)
PoolSize(table, rows, fresh) ==
    Cardinality(LabelZero(table, rows)) + FreshCount(fresh, "data")

MS_Start(table, set_population) ==
    [pc |-> "start", table |-> table, data |-> Named(table),
     fresh |-> FreshStart(table),
     set_population |-> set_population,
     val_proteins |-> {}, test_proteins |-> {}, train_proteins |-> {},
     X_train_data |-> Frame({}), X_val_data |-> Frame({}), X_test_data |-> Frame({}),
     X_train_data_neg |-> {}, X_val_data_neg |-> {}, X_test_data_neg |-> {},
     pool_sizes |-> <<>>, summaries |-> <<>>, raised |-> "none"]

(* random.sample(population, k) is given a set at line 183.  Python up to
   3.10 accepts a set as the population; Python 3.11 and later raise
   TypeError whatever the set and k. *)
SetPopulation == {"accepted", "rejected"}

(* Lines 179-194: the proteins of the label-1 rows are split 10% / 10% / rest
   and the rows are selected by accession (no fresh row is). *)
MS_SplitProteins ==
    /\ ms.pc = "start"
    /\ LET table == ms.table
           unique_proteins ==
               Column(table, {i \in ms.data : table[i]["label"] = 1}, "Uniprot Accession")
           k == IntPart(ProteinFrac, Cardinality(unique_proteins))
       IN  IF ms.set_population = "rejected"
           THEN ms' = [ms EXCEPT !.pc = "raised", !.raised = "TypeError"]
           ELSE
           \E val_proteins \in KSubsets(unique_proteins, k) :
           \E test_proteins \in KSubsets(unique_proteins \ val_proteins, k) :
             LET train_proteins == unique_proteins \ (test_proteins \cup val_proteins)
             IN  ms' = [ms EXCEPT
                   !.pc = "train_neg",
                   !.val_proteins = val_proteins,
                   !.test_proteins = test_proteins,
                   !.train_proteins = train_proteins,
                   !.X_train_data =
                       Frame(Isin(table, ms.data, "Uniprot Accession", train_proteins)),
                   !.X_val_data =
                       Frame(Isin(table, ms.data, "Uniprot Accession", val_proteins)),
                   !.X_test_data =
                       Frame(Isin(table, ms.data, "Uniprot Accession", test_proteins))]
    /\ UNCHANGED <<rs, mo, lv, tm>>

(* Lines 196-201: the negatives of the training partition are sampled from
   the label-0 rows, and the rows carrying a sampled peptide leave the frame. *)
MS_SampleTrainNeg ==
    /\ ms.pc = "train_neg"
    /\ LET pool == LabelZero(ms.table, ms.data)
           n == FrameLen(ms.X_train_data) * NegPerRow
       IN  IF n > PoolSize(ms.table, ms.data, ms.fresh)
           THEN ms' = [ms EXCEPT !.pc = "raised", !.raised = "ValueError",
                                 !.pool_sizes = <<PoolSize(ms.table, ms.data, ms.fresh)>>]
           ELSE \E X_train_data_neg \in sample(pool, ms.fresh, n) :
                  LET fresh == Mark(ms.fresh, X_train_data_neg.fresh, "train")
                      data == RemoveSampled(ms.table,
                                  [rows |-> ms.data, fresh |-> fresh],
                                  [rows |-> X_train_data_neg.rows, parts |-> {"train"}])
                  IN  ms' = [ms EXCEPT
                        !.pc = "val_neg",
                        !.X_train_data_neg = X_train_data_neg.rows,
                        !.data = data.rows,
                        !.fresh = data.fresh,
                        !.pool_sizes = <<PoolSize(ms.table, ms.data, ms.fresh),
                                         PoolSize(ms.table, data.rows, data.fresh)>>]
    /\ UNCHANGED <<rs, mo, lv, tm>>

(* Lines 202-209: the negatives of the validation partition. *)
MS_SampleValNeg ==
    /\ ms.pc = "val_neg"
    /\ LET pool == LabelZero(ms.table, ms.data)
           n == FrameLen(ms.X_val_data) * NegPerRow
       IN  IF n > PoolSize(ms.table, ms.data, ms.fresh)
           THEN ms' = [ms EXCEPT !.pc = "raised", !.raised = "ValueError"]
           ELSE \E X_val_data_neg \in sample(pool, ms.fresh, n) :
                  LET fresh == Mark(ms.fresh, X_val_data_neg.fresh, "val")
                      data == RemoveSampled(ms.table,
                                  [rows |-> ms.data, fresh |-> fresh],
                                  [rows |-> X_val_data_neg.rows \cup ms.X_train_data_neg,
                                   parts |-> {"val", "train"}])
                  IN  ms' = [ms EXCEPT
                        !.pc = "test_neg",
                        !.X_val_data_neg = X_val_data_neg.rows,
                        !.data = data.rows,
                        !.fresh = data.fresh,
                        !.pool_sizes =
                            Append(@, PoolSize(ms.table, data.rows, data.fresh))]
    /\ UNCHANGED <<rs, mo, lv, tm>>

(* Line 210: the negatives of the test partition; the frame is left as it is. *)
MS_SampleTestNeg ==
    /\ ms.pc = "test_neg"
    /\ LET pool == LabelZero(ms.table, ms.data)
           n == FrameLen(ms.X_test_data) * NegPerRow
       IN  IF n > PoolSize(ms.table, ms.data, ms.fresh)
           THEN ms' = [ms EXCEPT !.pc = "raised", !.raised = "ValueError"]
           ELSE \E X_test_data_neg \in sample(pool, ms.fresh, n) :
                  LET fresh == Mark(ms.fresh, X_test_data_neg.fresh, "test")
                  IN  ms' = [ms EXCEPT
                        !.pc = "sampled",
                        !.X_test_data_neg = X_test_data_neg.rows,
                        !.fresh = fresh,
                        !.pool_sizes =
                            Append(@, PoolSize(ms.table, ms.data, fresh))]
    /\ UNCHANGED <<rs, mo, lv, tm>>

(* Lines 212-219: the negatives are appended to the partitions and the label
   summaries are printed. *)
MS_AppendAndSummary ==
    /\ ms.pc = "sampled"
    /\ LET X_train_data ==
               FrameAppend(ms.X_train_data,
                   FrameAppend(Frame(ms.X_train_data_neg), FreshFrame(ms.fresh, "train")))
           X_val_data ==
               FrameAppend(ms.X_val_data,
                   FrameAppend(Frame(ms.X_val_data_neg), FreshFrame(ms.fresh, "val")))
           X_test_data ==
               FrameAppend(ms.X_test_data,
                   FrameAppend(Frame(ms.X_test_data_neg), FreshFrame(ms.fresh, "test")))
           sums == Summaries(Rows(ms.table),
                             <<X_train_data, X_val_data, X_test_data>>, "label")
       IN  ms' = [ms EXCEPT
             !.pc = IF SummariesRaised(sums) THEN "raised" ELSE "summarised",
             !.raised = IF SummariesRaised(sums) THEN "KeyError" ELSE "none",
             !.X_train_data = X_train_data,
             !.X_val_data = X_val_data,
             !.X_test_data = X_test_data,
             !.summaries = sums]
    /\ UNCHANGED <<rs, mo, lv, tm>>

(* Lines 221-228: the index files and the partitions are written. *)
MS_Save ==
    /\ ms.pc = "summarised"
    /\ ms' = [ms EXCEPT !.pc = "written"]
    /\ UNCHANGED <<rs, mo, lv, tm>>

InitMouse ==
    /\ \E table \in MouseTables, set_population \in SetPopulation :
         ms = MS_Start(table, set_population)
    /\ rs = Idle /\ mo = Idle /\ lv = Idle /\ tm = Idle

NextMouse ==
    \/ MS_SplitProteins
    \/ MS_SampleTrainNeg
    \/ MS_SampleValNeg
    \/ MS_SampleTestNeg
    \/ MS_AppendAndSummary
    \/ MS_Save

SpecMouse == InitMouse /\ [][NextMouse]_vars

(***************************************************************************)
(* leventstein                                                             *)
(*                                                                         *)
(* The input is the table (peptide, target_value) and the file             *)
(* pos_pep_lev_groups.csv (peptide, lev_group).  A row of the merged table *)
(* carries the lev_group of its peptide, 0 (NaN) when the file does not    *)
(* list the peptide.                                                       *)
(***************************************************************************)
LevRow(peptide, target_value) == [peptide |-> peptide, target_value |-> target_value]

(* nGroups groups with one peptide on one row of target_value 1 each; with
   twin, group 1 has a second peptide (50); nNeg rows of target_value 0 with
   peptides of their own; with both, peptide 1 also occurs on a row of
   target_value 0. *)
LevTable(nGroups, twin, nNeg, both) ==
    [g \in 1..nGroups |-> LevRow(g, 1)]
    \o (IF twin THEN <<LevRow(50, 1)>> ELSE <<>>)
    \o [j \in 1..nNeg |-> LevRow(100 + j, 0)]
    \o (IF both THEN <<LevRow(1, 0)>> ELSE <<>>)

LevGroupsFile(nGroups, twin) ==
    [q \in (1..nGroups) \cup (IF twin THEN {50} ELSE {}) |-> IF q = 50 THEN 1 ELSE q]

LevInputs ==
    {[data |-> LevTable(nGroups, twin, nNeg, both),
      pos_groups |-> LevGroupsFile(nGroups, twin)] :
        nGroups \in {1, 3, MaxGroups}, twin \in BOOLEAN,
        nNeg \in {1, MaxLevNeg - 1, MaxLevNeg}, both \in BOOLEAN}

(* data.merge(pos_groups, on="peptide", how="left") *)
MergeGroups(data, pos_groups) ==
    [i \in DOMAIN data |->
        [peptide |-> data[i].peptide, target_value |-> data[i].target_value,
         lev_group |-> IF data[i].peptide \in DOMAIN pos_groups
                       THEN pos_groups[data[i].peptide] ELSE 0]]

(* data.loc[data["lev_group"].isin(groups)] *)
IsinGroup(data, groups) == {i \in DOMAIN data : data[i].lev_group \in groups}

TrainGroupFrac == <<4, 5>>
LevValFrac == <<1, 2>>
LevEvalFrac == <<1, 5>>

LV_Start(input) ==
    [pc |-> "start", data |-> MergeGroups(input.data, input.pos_groups),
     pos_groups |-> input.pos_groups,
     positive_peptides_train |-> {}, positive_peptides_val |-> {},
     positive_peptides_test |-> {},
     negative_peptides_train |-> {}, X_eval_data |-> {},
     negative_peptides_val |-> {}, negative_peptides_test |-> {},
     train_data |-> Frame({}), val_data |-> Frame({}), test_data |-> Frame({}),
     summaries |-> <<>>, raised |-> "none"]

(* Lines 269-287: the groups are drawn 80% / 10% / 10% (no seed) and the rows
   of the merged table are selected by group. *)
LV_SplitGroups ==
    /\ lv.pc = "start"
    /\ LET lev_groups == {lv.pos_groups[q] : q \in DOMAIN lv.pos_groups}
           nTrain == Round(TrainGroupFrac, Cardinality(lev_groups))
           nVal == Round(LevValFrac, Cardinality(lev_groups) - nTrain)
       IN  \E lev_group_train \in KSubsets(lev_groups, nTrain) :
           \E lev_group_val \in KSubsets(lev_groups \ lev_group_train, nVal) :
             LET lev_group_test == (lev_groups \ lev_group_train) \ lev_group_val
             IN  lv' = [lv EXCEPT
                   !.pc = "groups",
                   !.positive_peptides_train = IsinGroup(lv.data, lev_group_train),
                   !.positive_peptides_val = IsinGroup(lv.data, lev_group_val),
                   !.positive_peptides_test = IsinGroup(lv.data, lev_group_test)]
    /\ UNCHANGED <<rs, ms, mo, tm>>

(* Lines 290-304: the rows of target_value 0 are split 80 / 20 with seed 42,
   the evaluation peptides are removed from the training peptides, and the
   rows of the merged table are selected by peptide. *)
LV_SplitNegatives ==
    /\ lv.pc = "groups"
    /\ LET negative_data == {i \in DOMAIN lv.data : lv.data[i].target_value = 0}
           n == Cardinality(negative_data)
           k == n_test(LevEvalFrac, n)
       IN  IF n = 0 \/ n_train(LevEvalFrac, n) = 0
           THEN lv' = [lv EXCEPT !.pc = "raised", !.raised = "ValueError"]
           ELSE \E pos \in KSubsets(1..n, k) :
                  LET eval_rows == Take(negative_data, pos)
                      pair == remove_overlapping_peptides(
                                  Peptides(lv.data, negative_data \ eval_rows),
                                  Peptides(lv.data, eval_rows))
                  IN  lv' = [lv EXCEPT
                        !.pc = "negatives",
                        !.negative_peptides_train = IsinPeptide(lv.data, pair[1]),
                        !.X_eval_data = IsinPeptide(lv.data, pair[2])]
    /\ UNCHANGED <<rs, ms, mo, tm>>

(* Lines 306-315: half of the evaluation rows are sampled for validation, the
   validation peptides are removed from the test peptides, and the rows are
   selected by peptide. *)
LV_SampleVal ==
    /\ lv.pc = "negatives"
    /\ LET m == Cardinality(lv.X_eval_data)
       IN  \E pos \in KSubsets(1..m, Round(LevValFrac, m)) :
             LET X_val_rows == Take(lv.X_eval_data, pos)
                 X_test_rows == lv.X_eval_data \ X_val_rows
                 pair == remove_overlapping_peptides(
                             Peptides(lv.data, X_test_rows),
                             Peptides(lv.data, X_val_rows))
             IN  lv' = [lv EXCEPT
                   !.pc = "sampled",
                   !.negative_peptides_val = IsinPeptide(lv.data, pair[2]),
                   !.negative_peptides_test = IsinPeptide(lv.data, pair[1])]
    /\ UNCHANGED <<rs, ms, mo, tm>>

(* Lines 317-326: the rows selected by group and the rows selected by the
   negative split are appended, and the label summaries are printed. *)
LV_AppendAndSummary ==
    /\ lv.pc = "sampled"
    /\ LET train_data == FrameAppend(Frame(lv.positive_peptides_train),
                                     Frame(lv.negative_peptides_train))
           val_data == FrameAppend(Frame(lv.positive_peptides_val),
                                   Frame(lv.negative_peptides_val))
           test_data == FrameAppend(Frame(lv.positive_peptides_test),
                                    Frame(lv.negative_peptides_test))
           sums == Summaries(lv.data, <<train_data, val_data, test_data>>, "target_value")
       IN  lv' = [lv EXCEPT
             !.pc = IF SummariesRaised(sums) THEN "raised" ELSE "summarised",
             !.raised = IF SummariesRaised(sums) THEN "KeyError" ELSE "none",
             !.train_data = train_data,
             !.val_data = val_data,
             !.test_data = test_data,
             !.summaries = sums]
    /\ UNCHANGED <<rs, ms, mo, tm>>

(* Lines 328-332: the index files are written. *)
LV_Save ==
    /\ lv.pc = "summarised"
    /\ lv' = [lv EXCEPT !.pc = "written"]
    /\ UNCHANGED <<rs, ms, mo, tm>>

InitLev ==
    /\ \E input \in LevInputs : lv = LV_Start(input)
    /\ rs = Idle /\ ms = Idle /\ mo = Idle /\ tm = Idle

NextLev ==
    \/ LV_SplitGroups
    \/ LV_SplitNegatives
    \/ LV_SampleVal
    \/ LV_AppendAndSummary
    \/ LV_Save

SpecLev == InitLev /\ [][NextLev]_vars

(***************************************************************************)
(* motif_exclusion                                                         *)
(*                                                                         *)
(* raw_files is the set of the (peptide, file_name) pairs of the raw files *)
(* (after drop_duplicates); a file name is <<"train", i>> for              *)
(* train_EL{i}.txt and <<"test", i>> for test_EL{i}.txt.                   *)
(***************************************************************************)
(* The number of folds is set in mhciipresentation/constants.py, which is
   imported at line 21 and is not among the sources; two folds are modelled. *)
N_MOTIF_FOLDS == 2

FileNames == {"train", "test"} \X (1..N_MOTIF_FOLDS)

MotifTables ==
    {t \in RandomTables :
        Len(t) <= MaxMotifRows /\ \A i \in DOMAIN t : t[i].peptide <= MaxMotifPeptides}

(* Every assignment of sets of file names to the peptides of the table. *)
MotifInputs ==
    UNION {{[data |-> t, raw_files |-> UNION {{q} \X tags[q] : q \in DOMAIN tags}] :
              tags \in [Peptides(t, DOMAIN t) -> SUBSET FileNames]} :
           t \in MotifTables}

(* The peptides of the rows of data_with_filename whose file_name is name:
   data.merge(raw_files, how="left", on="peptide") keeps a row of data once
   for every file name of its peptide. *)
TaggedPeptides(data, raw_files, name) ==
    {data[i].peptide : i \in {j \in DOMAIN data : <<data[j].peptide, name>> \in raw_files}}

MO_Start(input) ==
    [pc |-> "loop", data |-> input.data, raw_files |-> input.raw_files, i |-> 0,
     written |-> <<>>, summaries |-> <<>>, overlap |-> <<>>, raised |-> "none"]

(* Lines 244-260: one iteration of the loop over the folds. *)
MO_Fold ==
    /\ mo.pc = "loop"
    /\ mo.i < N_MOTIF_FOLDS
    /\ LET X_train == IsinPeptide(mo.data,
                         TaggedPeptides(mo.data, mo.raw_files, <<"train", mo.i + 1>>))
           X_val == IsinPeptide(mo.data,
                         TaggedPeptides(mo.data, mo.raw_files, <<"test", mo.i + 1>>))
           sums == Summaries(mo.data, <<Frame(X_train), Frame(X_val)>>, "target_value")
       IN  IF SummariesRaised(sums)
           THEN mo' = [mo EXCEPT !.pc = "raised", !.raised = "KeyError",
                                 !.summaries = @ \o sums]
           ELSE mo' = [mo EXCEPT
                   !.i = mo.i + 1,
                   !.summaries = @ \o sums,
                   !.overlap = Append(@, validate_split(Peptides(mo.data, X_train),
                                                        Peptides(mo.data, X_val),
                                                        {}, FALSE)),
                   !.written = Append(@, save_idx(X_train, X_val, {}, FALSE))]
    /\ UNCHANGED <<rs, ms, lv, tm>>

(* The loop ends after the last fold. *)
MO_Done ==
    /\ mo.pc = "loop"
    /\ mo.i = N_MOTIF_FOLDS
    /\ mo' = [mo EXCEPT !.pc = "done"]
    /\ UNCHANGED <<rs, ms, lv, tm>>

InitMotif ==
    /\ \E input \in MotifInputs : mo = MO_Start(input)
    /\ rs = Idle /\ ms = Idle /\ lv = Idle /\ tm = Idle

NextMotif ==
    \/ MO_Fold
    \/ MO_Done

SpecMotif == InitMotif /\ [][NextMotif]_vars

(***************************************************************************)
(* TransformerModel (models.py)                                            *)
(***************************************************************************)
(* The keys of the default value of the metrics parameter of __init__ *)
DefaultMetrics ==
    <<"accuracy", "auroc", "roc", "precision", "recall", "f1",
      "precision_recall_curve", "confusion_matrix", "matthews", "cohen">>

(* The attributes __init__ assigns on self (lines 84-107).  The metrics
   parameter is not assigned. *)
InitAttributes ==
    {"model_type", "seq_len", "pos_encoder", "transformer_encoder", "embedding",
     "feedforward", "embedding_size", "loss_fn", "start_learning_rate",
     "weight_decay"}

(* The parameters forward requires besides self (line 114-116) *)
ForwardParams == <<"src", "src_padding_mask">>

(* self(args): forward is called with the positional arguments given; a
   missing required argument raises TypeError. *)
CallForward(nArgs) ==
    IF nArgs = Len(ForwardParams) THEN "none" ELSE "TypeError"

(* evaluate_model: self.metrics is looked up on the module; one key
   prefix_metric is logged per metric. *)
evaluate_model(attrs, prefix) ==
    IF "metrics" \in attrs
    THEN [raised |-> "none",
          logged |-> [j \in DOMAIN DefaultMetrics |-> <<prefix, DefaultMetrics[j]>>]]
    ELSE [raised |-> "AttributeError", logged |-> <<>>]

(* training_step, validation_step and test_step: y_hat = self(batch), the
   loss is logged under loss_key, then evaluate_model logs under prefix. *)
Step(attrs, loss_key, prefix) ==
    LET called == CallForward(1)
        evaluated == evaluate_model(attrs, prefix)
    IN  IF called # "none" THEN [raised |-> called, logged |-> <<>>]
        ELSE [raised |-> evaluated.raised,
              logged |-> <<loss_key>> \o evaluated.logged]

(* A well-formed batch: the labels y of its rows. *)
Batches == UNION {[1..n -> {0, 1}] : n \in 1..MaxBatch}

TM_Start(attrs) ==
    [pc |-> "ready", attrs |-> attrs, steps |-> 0, phase |-> "none",
     batch |-> <<>>, logged |-> <<>>, raised |-> "none"]

(* The state after a step method has run on batch. *)
TM_Stepped(phase, batch, loss_key, prefix) ==
    LET r == Step(tm.attrs, loss_key, prefix)
    IN  [tm EXCEPT !.pc = "stepped", !.steps = @ + 1, !.phase = phase,
                   !.batch = batch, !.logged = r.logged, !.raised = r.raised]

(* Lines 168-175 *)
training_step ==
    /\ tm.pc \in {"ready", "stepped"}
    /\ tm.steps < MaxSteps
    /\ \E batch \in Batches :
         tm' = TM_Stepped("training", batch, <<"train", "loss">>, "train")
    /\ UNCHANGED <<rs, ms, mo, lv>>

(* Lines 177-181 *)
validation_step ==
    /\ tm.pc \in {"ready", "stepped"}
    /\ tm.steps < MaxSteps
    /\ \E batch \in Batches :
         tm' = TM_Stepped("validation", batch, <<"val", "loss">>, "validation")
    /\ UNCHANGED <<rs, ms, mo, lv>>

(* Lines 183-189 *)
test_step ==
    /\ tm.pc \in {"ready", "stepped"}
    /\ tm.steps < MaxSteps
    /\ \E batch \in Batches :
         tm' = TM_Stepped("test", batch, <<"test", "loss">>, "test")
    /\ UNCHANGED <<rs, ms, mo, lv>>

InitModel ==
    /\ tm = TM_Start(InitAttributes)
    /\ rs = Idle /\ ms = Idle /\ mo = Idle /\ lv = Idle

NextModel ==
    \/ training_step
    \/ validation_step
    \/ test_step

SpecModel == InitModel /\ [][NextModel]_vars

(***************************************************************************)
(* The whole program: one of the routines is run.                          *)
(***************************************************************************)
Init == InitRandom \/ InitMouse \/ InitMotif \/ InitLev \/ InitModel

Next == NextRandom \/ NextMouse \/ NextMotif \/ NextLev \/ NextModel

Spec == Init /\ [][Next]_vars

(***************************************************************************)
(* Claims about random_splitting                                           *)
(***************************************************************************)
PairwiseDisjoint(A, B, C) == A \cap B = {} /\ A \cap C = {} /\ B \cap C = {}

(* C1: the train, validation and test partitions random_splitting computes
   and writes have pairwise disjoint peptide sets; with no test partition,
   train and validation share no peptide. *)
C1_PartitionsDisjoint ==
    /\ rs.pc \in {"sampled", "summarised", "written"} =>
          PairwiseDisjoint(Peptides(rs.data, rs.loc.X_train_data),
                           Peptides(rs.data, rs.loc.X_val_data),
                           Peptides(rs.data, rs.loc.X_test_data))
    /\ rs.pc # "idle" =>
          \A j \in DOMAIN rs.out :
             PairwiseDisjoint(Peptides(rs.data, rs.out[j].X_train_idx),
                              Peptides(rs.data, rs.out[j].X_val_idx),
                              Peptides(rs.data, rs.out[j].X_test_idx))

(* Three partitions were written from a table in which a peptide of the
   evaluation rows also occurs on a row drawn for training. *)
C1_Witness ==
    /\ rs.pc = "written"
    /\ rs.loc.has_test
    /\ rs.loc.X_test_data # {}
    /\ \E m \in rs.memo :
          /\ m[1] = "train_test_split"
          /\ Peptides(rs.data, m[4]) \cap Peptides(rs.data, (1..Len(rs.data)) \ m[4]) # {}

(* C8: random_splitting is deterministic: a seeded draw made again with the
   same arguments selects the same rows, and two invocations on the same
   table with the same eval_frac and val_frac end the same way and write the
   same index sets. *)
C8_Deterministic ==
    rs.pc # "idle" =>
        /\ \A m1, m2 \in rs.memo :
              (m1[1] = m2[1] /\ m1[2] = m2[2] /\ m1[3] = m2[3]) => m1[4] = m2[4]
        /\ Len(rs.out) = 2 => rs.out[1] = rs.out[2]

(* Both invocations wrote three partitions. *)
C8_Witness ==
    /\ rs.pc = "written"
    /\ rs.run = 2
    /\ Len(rs.out) = 2
    /\ rs.out[2].status = "written"
    /\ rs.out[2].has_test

(* C9: when the un-sampled remainder of the evaluation rows is non-empty, the
   validation partition holds the peptide of every row drawn by the val_frac
   sample, and the test partition holds only peptides of rows not drawn. *)
C9_ValFracIsValidation ==
    (rs.pc = "written" /\ rs.loc.has_test) =>
        /\ Peptides(rs.data, rs.loc.sampled)
              \subseteq Peptides(rs.data, rs.loc.X_val_data)
        /\ Peptides(rs.data, rs.loc.X_test_data)
              \subseteq Peptides(rs.data, rs.loc.X_eval_data \ rs.loc.sampled)

(***************************************************************************)
(* Claims about random_splitting_mouse                                     *)
(***************************************************************************)
(* The values of a column over the rows of a written partition. *)
MS_Values(frame, col) == Column(Rows(ms.table), DOMAIN frame, col)

(* C2: the three partitions random_splitting_mouse writes (rows selected by
   accession plus the negatives sampled for the partition) have pairwise
   disjoint sets of peptide sequences. *)
C2_MousePeptidesDisjoint ==
    ms.pc = "written" =>
        PairwiseDisjoint(MS_Values(ms.X_train_data, "Peptide Sequence"),
                         MS_Values(ms.X_val_data, "Peptide Sequence"),
                         MS_Values(ms.X_test_data, "Peptide Sequence"))

(* C5: in the partitions random_splitting_mouse writes, no two rows with the
   same accession are in different partitions. *)
C5_MouseProteinInOnePartition ==
    ms.pc = "written" =>
        PairwiseDisjoint(MS_Values(ms.X_train_data, "Uniprot Accession"),
                         MS_Values(ms.X_val_data, "Uniprot Accession"),
                         MS_Values(ms.X_test_data, "Uniprot Accession"))

(* C6, as claimed: on a completed run the pool of label-0 rows is strictly
   smaller after the negative sampling of each partition, train, validation
   and test. *)
C6_PoolStrictlyDecreases ==
    ms.pc = "written" =>
        \A j \in 1..(Len(ms.pool_sizes) - 1) : ms.pool_sizes[j + 1] < ms.pool_sizes[j]

(* C6, amended: the pool never grows; the sampling for train and for
   validation makes it strictly smaller exactly when it samples a row, by at
   least the number of rows sampled; the sampling for test leaves it
   unchanged; on a completed run it is strictly smaller after train and after
   validation. *)
(* The number of rows sampled for the partition r *)
MS_Sampled(rows, r) == Cardinality(rows) + FreshCount(ms.fresh, r)

C6_PoolShrinksWhenSampled ==
    ms.pc # "idle" =>
        LET p == ms.pool_sizes
            train == MS_Sampled(ms.X_train_data_neg, "train")
            val == MS_Sampled(ms.X_val_data_neg, "val")
        IN  /\ Len(p) >= 2 =>
                 /\ p[2] <= p[1] - train
                 /\ (train = 0) = (p[2] = p[1])
            /\ Len(p) >= 3 =>
                 /\ p[3] <= p[2] - val
                 /\ (val = 0) = (p[3] = p[2])
            /\ Len(p) >= 4 => p[4] = p[3]
            /\ ms.pc = "written" => (Len(p) = 4 /\ p[1] > p[2] /\ p[2] > p[3])

(* A completed run in which the removal after the training sample took more
   rows out of the pool than were sampled (a repeated peptide). *)
C6_Witness ==
    /\ ms.pc = "written"
    /\ Len(ms.pool_sizes) = 4
    /\ ms.pool_sizes[1] - ms.pool_sizes[2] > MS_Sampled(ms.X_train_data_neg, "train")
    /\ MS_Sampled(ms.X_val_data_neg, "val") > 0

(* C11: the peptide sequences of the negatives random_splitting_mouse samples
   for train, for validation and for test are pairwise disjoint, and the
   label-0 rows a later partition's negatives are drawn from carry no peptide
   sequence sampled for an earlier partition, also when label-0 rows share a
   peptide sequence. *)
MS_NegPeptides(rows, r) ==
    Column(ms.table, rows, "Peptide Sequence") \cup FreshKeys(ms.fresh, r)

C11_SampledNegativesDisjoint ==
    ms.pc # "idle" =>
        LET pool == MS_NegPeptides(LabelZero(ms.table, ms.data), "data")
            train == MS_NegPeptides(ms.X_train_data_neg, "train")
            val == MS_NegPeptides(ms.X_val_data_neg, "val")
            test == MS_NegPeptides(ms.X_test_data_neg, "test")
        IN  /\ PairwiseDisjoint(train, val, test)
            /\ ms.pc = "val_neg" => pool \cap train = {}
            /\ ms.pc = "test_neg" => pool \cap (train \cup val) = {}

(* The routine completed on a table whose label-0 rows share a peptide
   sequence: one of the sharing rows was sampled for train, another was not
   sampled at all, and negatives were sampled for validation and for test. *)
C11_Witness ==
    /\ ms.pc = "written"
    /\ MS_Sampled(ms.X_val_data_neg, "val") > 0
    /\ MS_Sampled(ms.X_test_data_neg, "test") > 0
    /\ \E i \in ms.X_train_data_neg :
         \E j \in LabelZero(ms.table, DOMAIN ms.table) \ ms.X_train_data_neg :
            ms.table[i]["Peptide Sequence"] = ms.table[j]["Peptide Sequence"]

(* C7: every call of label_dist_summary a splitting routine makes completes,
   and the negative and positive counts it reports add up to the number of
   rows of the partition. *)
SummaryComplete(r) == r.raised = "none" /\ r.negative + r.positive = r.rows

C7_SummaryCountsAddUp ==
    /\ ms.pc # "idle" => \A j \in DOMAIN ms.summaries : SummaryComplete(ms.summaries[j])
    /\ rs.pc # "idle" => \A j \in DOMAIN rs.loc.summaries :
                            SummaryComplete(rs.loc.summaries[j])

(***************************************************************************)
(* Claims about leventstein                                                *)
(***************************************************************************)
(* C3: in the partitions leventstein writes, no two rows whose peptides have
   the same lev_group are in different partitions. *)
LV_Straddles(A, B) ==
    \E i \in DOMAIN A, j \in DOMAIN B :
        lv.data[i].lev_group # 0 /\ lv.data[i].lev_group = lv.data[j].lev_group

C3_GroupsDoNotStraddle ==
    lv.pc = "written" =>
        /\ ~LV_Straddles(lv.train_data, lv.val_data)
        /\ ~LV_Straddles(lv.train_data, lv.test_data)
        /\ ~LV_Straddles(lv.val_data, lv.test_data)

(***************************************************************************)
(* Claims about motif_exclusion                                            *)
(***************************************************************************)
(* C4: for every fold, the train partition and the validation partition
   motif_exclusion writes have disjoint peptide sets. *)
C4_MotifFoldsDisjoint ==
    mo.pc # "idle" =>
        \A j \in DOMAIN mo.written :
            Peptides(mo.data, mo.written[j].X_train_idx)
                \cap Peptides(mo.data, mo.written[j].X_val_idx) = {}

(***************************************************************************)
(* Claims about TransformerModel                                           *)
(***************************************************************************)
(* The keys a phase is claimed to log: its loss, then the ten metrics, all
   under the prefix of the phase. *)
PanelKeys(prefix) ==
    <<<<prefix, "loss">>>> \o [j \in DOMAIN DefaultMetrics |-> <<prefix, DefaultMetrics[j]>>]

PhasePrefix(phase) ==
    IF phase = "training" THEN "train"
    ELSE IF phase = "validation" THEN "validation" ELSE "test"

(* C10: on a model built with the default arguments every step completes
   and logs the loss of the phase followed by the ten metrics, the keys of
   the three phases differing only in the prefix. *)
C10_StepsLogPanel ==
    tm.pc = "stepped" =>
        /\ tm.raised = "none"
        /\ tm.logged = PanelKeys(PhasePrefix(tm.phase))

====
